---- MODULE Spec2Model ----
(***************************************************************************)
(* Appointment Scheduler API (src/main.py): the create_appointment and     *)
(* update_appointment_status request handlers over the remote record store *)
(* (tables services, clients, staff, appointments, appointment_reminders). *)
(*                                                                         *)
(* The handlers are `async def` bodies without any await, so one handler   *)
(* runs to completion before the next starts: each handler is one action.  *)
(* Every store call may raise; the input `fail` names the table whose call *)
(* raises during the request ("none": no call raises).  A call that raises *)
(* leaves its table unchanged.                                             *)
(***************************************************************************)
EXTENDS Integers, FiniteSets, Sequences, TLC

VARIABLES services, clients, staff, appointments, reminders,
          request, raised, calls, response

vars == <<services, clients, staff, appointments, reminders,
          request, raised, calls, response>>

\* Bound: the number of rows the appointments table may hold.
MaxAppointments == 2

None == "None"

\* ---------------------------------------------------------------- inputs

\* Request bodies of POST /appointments/ (JSON objects; absent keys are
\* absent from the record's domain).
Bodies ==
  { [service_id |-> "s1", client_id |-> "c1",
     start_time |-> 600, end_time |-> 630],
    [service_id |-> "s1", client_id |-> "c1", staff_id |-> "st1",
     start_time |-> 840, end_time |-> 900, status |-> "bogus",
     business_id |-> "caller-biz"],
    [service_id |-> "s2", client_id |-> "c1",
     start_time |-> 600, end_time |-> 630],
    [service_id |-> "s1", client_id |-> "c2",
     start_time |-> 600, end_time |-> 630],
    [service_id |-> "s1", client_id |-> "c1", staff_id |-> "st2",
     start_time |-> 600, end_time |-> 630] }

\* status query parameter values of PUT /appointments/{id}/status
StatusInputs ==
  {"scheduled", "confirmed", "completed", "cancelled", "no-show", "bogus"}

AppointmentIds == 1..MaxAppointments

CreateFailPoints ==
  {"none", "services", "clients", "staff", "appointments",
   "appointment_reminders"}

UpdateFailPoints == {"none", "appointments"}

\* ------------------------------------------------------------ exceptions

NoExc == [type |-> "none", status_code |-> 0, detail |-> ""]

HTTPException(status_code, detail) ==
  [type |-> "HTTPException", status_code |-> status_code, detail |-> detail]

\* An exception raised by a store call on the given table.
StoreError(table) ==
  [type |-> "Exception", status_code |-> 0, detail |-> table]

\* str(e) as used for the detail of the 500 response.
Str(e) ==
  IF e.type = "HTTPException"
    THEN CASE e.detail = "Service not found" -> "404: Service not found"
           [] e.detail = "Client not found" -> "404: Client not found"
           [] e.detail = "Staff not found" -> "404: Staff not found"
           [] e.detail = "Appointment not found"
                -> "404: Appointment not found"
           [] OTHER -> e.detail
    ELSE e.detail

\* ------------------------------------------------------- pydantic models

\* Variant: the model validates status and falls back to the default.
AppointmentCreate_checked_status(body) ==
  [service_id |-> body.service_id,
   client_id  |-> body.client_id,
   staff_id   |-> IF "staff_id" \in DOMAIN body THEN body.staff_id ELSE None,
   start_time |-> body.start_time,
   end_time   |-> body.end_time,
   status     |-> "scheduled",
   notes      |-> IF "notes" \in DOMAIN body THEN body.notes ELSE None]

\* AppointmentCreate(**body): declared fields only, defaults applied;
\* undeclared keys of the body (such as business_id) are dropped.
AppointmentCreate(body) ==
  [service_id |-> body.service_id,
   client_id  |-> body.client_id,
   staff_id   |-> IF "staff_id" \in DOMAIN body THEN body.staff_id ELSE None,
   start_time |-> body.start_time,
   end_time   |-> body.end_time,
   status     |-> IF "status" \in DOMAIN body THEN body.status
                                              ELSE "scheduled",
   notes      |-> IF "notes" \in DOMAIN body THEN body.notes ELSE None]

\* Python truthiness of an Optional[str]
Truthy(x) == x # None /\ x # ""

\* datetime.isoformat() of a time of day given in minutes: <<hour, minute>>
isoformat(t) == <<t \div 60, t % 60>>

get_business_id == "00000000-0000-0000-0000-000000000000"

\* ------------------------------------------------------------- the store

Ids(table) == {r.id : r \in table}

\* The identifier the store assigns to the next inserted row of a table.
NextId(table) == Cardinality(table) + 1

\* .insert(row).execute(): result.data[0], the row with its server-side id
InsertedRow(table, row) == row @@ [id |-> NextId(table)]

\* Variant: an insert that skips a row whose content is already stored.
Insert_dedup(table, row) ==
  IF \E r \in table : \A k \in DOMAIN row : r[k] = row[k]
    THEN table
    ELSE table \cup {row @@ [id |-> NextId(table)]}

Insert(table, row) == table \cup {InsertedRow(table, row)}

\* .select("*").eq("id", id).execute(): result.data
Select(table, id) == {r \in table : r.id = id}

\* Variant: a completed appointment is terminal and keeps its status.
Update_guarded(table, id, status) ==
  {IF r.id = id /\ r.status # "completed"
     THEN [r EXCEPT !.status = status] ELSE r : r \in table}

\* .update({"status": status}).eq("id", id).execute(): the table afterwards
Update(table, id, status) ==
  {IF r.id = id THEN [r EXCEPT !.status = status] ELSE r : r \in table}

\* result.data of the update: the rows that matched, as updated
Updated(table, id, status) ==
  {[r EXCEPT !.status = status] : r \in {x \in table : x.id = id}}

\* ------------------------------------------------------ create_appointment

\* Variant: the staff lookup is left out.
validate_no_staff_check(appointment, fail) ==
  IF fail = "services"
    THEN [raised |-> StoreError("services"), calls |-> 1]
  ELSE IF Select(services, appointment.service_id) = {}
    THEN [raised |-> HTTPException(404, "Service not found"), calls |-> 1]
  ELSE IF fail = "clients"
    THEN [raised |-> StoreError("clients"), calls |-> 2]
  ELSE IF Select(clients, appointment.client_id) = {}
    THEN [raised |-> HTTPException(404, "Client not found"), calls |-> 2]
  ELSE [raised |-> NoExc, calls |-> 2]

\* The three existence checks (main.py 203-216): the exception they raise,
\* or NoExc, and the number of store calls made.
validate(appointment, fail) ==
  IF fail = "services"
    THEN [raised |-> StoreError("services"), calls |-> 1]
  ELSE IF Select(services, appointment.service_id) = {}
    THEN [raised |-> HTTPException(404, "Service not found"), calls |-> 1]
  ELSE IF fail = "clients"
    THEN [raised |-> StoreError("clients"), calls |-> 2]
  ELSE IF Select(clients, appointment.client_id) = {}
    THEN [raised |-> HTTPException(404, "Client not found"), calls |-> 2]
  ELSE IF ~Truthy(appointment.staff_id)
    THEN [raised |-> NoExc, calls |-> 2]
  ELSE IF fail = "staff"
    THEN [raised |-> StoreError("staff"), calls |-> 3]
  ELSE IF Select(staff, appointment.staff_id) = {}
    THEN [raised |-> HTTPException(404, "Staff not found"), calls |-> 3]
  ELSE [raised |-> NoExc, calls |-> 3]

\* appointment.dict() with business_id set from the dependency (218-219)
appointment_data(appointment, business_id) ==
  appointment @@ [business_id |-> business_id]

\* Variant: the reminder is scheduled at the end of the appointment.
reminder_data_end_time(result, appointment) ==
  [appointment_id |-> result.id,
   reminder_type  |-> "email",
   scheduled_time |-> isoformat(appointment.end_time),
   status         |-> "pending"]

\* the reminder row for the inserted appointment (223-228)
reminder_data(result, appointment) ==
  [appointment_id |-> result.id,
   reminder_type  |-> "email",
   scheduled_time |-> isoformat(appointment.start_time),
   status         |-> "pending"]

\* Variant: a failed reminder insert rolls the appointment insert back.
writes_rollback(appointment, business_id, fail) ==
  LET data   == appointment_data(appointment, business_id)
      result == InsertedRow(appointments, data)
      appts  == Insert(appointments, data)
  IN  IF fail \in {"appointments", "appointment_reminders"}
        THEN [raised |-> StoreError(fail),
              appointments |-> appointments, reminders |-> reminders,
              ret |-> <<>>, calls |-> IF fail = "appointments" THEN 1 ELSE 3]
      ELSE [raised |-> NoExc,
            appointments |-> appts,
            reminders |-> Insert(reminders,
                                 reminder_data(result, appointment)),
            ret |-> <<result>>, calls |-> 2]

\* Variant: the reminder is inserted before the appointment, for the
\* identifier the appointment is expected to get.
writes_reminder_first(appointment, business_id, fail) ==
  LET data   == appointment_data(appointment, business_id)
      result == InsertedRow(appointments, data)
      appts  == Insert(appointments, data)
      rems   == Insert(reminders, reminder_data(result, appointment))
  IN  IF fail = "appointment_reminders"
        THEN [raised |-> StoreError("appointment_reminders"),
              appointments |-> appointments, reminders |-> reminders,
              ret |-> <<>>, calls |-> 1]
      ELSE IF fail = "appointments"
        THEN [raised |-> StoreError("appointments"),
              appointments |-> appointments, reminders |-> rems,
              ret |-> <<>>, calls |-> 2]
      ELSE [raised |-> NoExc, appointments |-> appts, reminders |-> rems,
            ret |-> <<result>>, calls |-> 2]

\* The two inserts (main.py 218-231), run once the checks have passed:
\* the exception raised (or NoExc), both tables afterwards, the returned
\* row (a sequence of length 0 or 1) and the number of store calls made.
writes(appointment, business_id, fail) ==
  LET data   == appointment_data(appointment, business_id)
      result == InsertedRow(appointments, data)
      appts  == Insert(appointments, data)
  IN  IF fail = "appointments"
        THEN [raised |-> StoreError("appointments"),
              appointments |-> appointments, reminders |-> reminders,
              ret |-> <<>>, calls |-> 1]
      ELSE IF fail = "appointment_reminders"
        THEN [raised |-> StoreError("appointment_reminders"),
              appointments |-> appts, reminders |-> reminders,
              ret |-> <<>>, calls |-> 2]
      ELSE [raised |-> NoExc,
            appointments |-> appts,
            reminders |-> Insert(reminders,
                                 reminder_data(result, appointment)),
            ret |-> <<result>>, calls |-> 2]

\* except Exception as e: raise HTTPException(500, str(e))  (232-233, 263-264)
\* HTTPException is itself an Exception, so it is caught as well.
Respond(e, ret) ==
  IF e # NoExc
    THEN [status_code |-> 500, detail |-> Str(e), body |-> <<>>]
    ELSE [status_code |-> 200, detail |-> "", body |-> ret]

\* POST /appointments/
create_appointment(body, fail) ==
  LET appointment == AppointmentCreate(body)
      business_id == get_business_id
      v == validate(appointment, fail)
      w == IF v.raised = NoExc
             THEN writes(appointment, business_id, fail)
             ELSE [raised |-> v.raised,
                   appointments |-> appointments, reminders |-> reminders,
                   ret |-> <<>>, calls |-> 0]
  IN  /\ Cardinality(appointments) < MaxAppointments
      /\ request' = [op |-> "create_appointment", body |-> body]
      /\ appointments' = w.appointments
      /\ reminders' = w.reminders
      /\ raised' = w.raised
      /\ calls' = v.calls + w.calls
      /\ response' = Respond(w.raised, w.ret)
      /\ UNCHANGED <<services, clients, staff>>

\* ----------------------------------------------- update_appointment_status

\* Variant: the status value is not checked.
valid_status_any(status) == TRUE

\* status in ["scheduled", "confirmed", "completed", "cancelled", "no-show"]
valid_status(status) ==
  status \in {"scheduled", "confirmed", "completed", "cancelled", "no-show"}

\* The try body (main.py 259-262).
update_try(appointment_id, status, fail) ==
  LET data == Updated(appointments, appointment_id, status)
  IN  IF fail = "appointments"
        THEN [raised |-> StoreError("appointments"),
              appointments |-> appointments, ret |-> <<>>]
      ELSE IF data = {}
        THEN [raised |-> HTTPException(404, "Appointment not found"),
              appointments |-> Update(appointments, appointment_id, status),
              ret |-> <<>>]
      ELSE [raised |-> NoExc,
            appointments |-> Update(appointments, appointment_id, status),
            ret |-> <<CHOOSE r \in data : TRUE>>]

\* PUT /appointments/{appointment_id}/status
update_appointment_status(appointment_id, status, fail) ==
  /\ request' = [op |-> "update_appointment_status",
                 appointment_id |-> appointment_id, status |-> status]
  /\ IF ~valid_status(status)
       THEN /\ raised' = HTTPException(400, "Invalid status value")
            /\ response' = [status_code |-> 400,
                            detail |-> "Invalid status value",
                            body |-> <<>>]
            /\ calls' = 0
            /\ UNCHANGED appointments
       ELSE LET u == update_try(appointment_id, status, fail)
            IN  /\ raised' = u.raised
                /\ response' = Respond(u.raised, u.ret)
                /\ calls' = 1
                /\ appointments' = u.appointments
  /\ UNCHANGED <<services, clients, staff, reminders>>

\* ------------------------------------------------------------ specification

Init ==
  /\ services = {[id |-> "s1"]}
  /\ clients = {[id |-> "c1"]}
  /\ staff = {[id |-> "st1"]}
  /\ appointments = {}
  /\ reminders = {}
  /\ request = [op |-> "none"]
  /\ raised = NoExc
  /\ calls = 0
  /\ response = [status_code |-> 0, detail |-> "", body |-> <<>>]

CreateAppointment ==
  \E body \in Bodies, fail \in CreateFailPoints :
    create_appointment(body, fail)

UpdateAppointmentStatus ==
  \E appointment_id \in AppointmentIds, status \in StatusInputs,
     fail \in UpdateFailPoints :
    update_appointment_status(appointment_id, status, fail)

Next == CreateAppointment \/ UpdateAppointmentStatus

Spec == Init /\ [][Next]_vars

TypeOK ==
  /\ Cardinality(appointments) <= MaxAppointments
  /\ response.status_code \in {0, 200, 400, 500}

\* ------------------------------------------------------------ properties

\* The status set named by the specification (section 3).
EnumeratedStatuses ==
  {"scheduled", "confirmed", "completed", "cancelled", "no-show"}

IsCreate == request.op = "create_appointment"

IsUpdate == request.op = "update_appointment_status"

\* No store call raised during the last request.
NoStoreFailure == raised.type # "Exception"

StaffSupplied(body) == "staff_id" \in DOMAIN body

\* service_id, client_id and (when supplied) staff_id each name a stored row
RefsResolve(body) ==
  /\ \E r \in services : r.id = body.service_id
  /\ \E r \in clients : r.id = body.client_id
  /\ StaffSupplied(body) => \E r \in staff : r.id = body.staff_id

RemindersOf(rems, id) == {r \in rems : r.appointment_id = id}

\* C1: a create_appointment call whose references resolve and during which
\* no store call fails returns 200 with the stored appointment, whose
\* business_id is the context's and not the caller's, and exactly one
\* reminder references it: email, pending, scheduled at its start_time.
C1_CreateSucceedsWithOneReminder ==
  (IsCreate /\ RefsResolve(request.body) /\ NoStoreFailure) =>
    /\ response.status_code = 200
    /\ Len(response.body) = 1
    /\ LET a == response.body[1]
       IN  /\ a \in appointments
           /\ a.business_id = get_business_id
           /\ "business_id" \in DOMAIN request.body
                => a.business_id # request.body.business_id
           /\ Cardinality(RemindersOf(reminders, a.id)) = 1
           /\ \A r \in RemindersOf(reminders, a.id) :
                /\ r.reminder_type = "email"
                /\ r.status = "pending"
                /\ r.scheduled_time = isoformat(a.start_time)

\* A successful creation from a body that carries its own business_id and
\* a staff_id.
C1_Witness ==
  /\ IsCreate
  /\ response.status_code = 200
  /\ "business_id" \in DOMAIN request.body
  /\ StaffSupplied(request.body)
  /\ Cardinality(appointments) = 2

\* C2: a create_appointment call with an unresolved service_id, client_id
\* or supplied staff_id (no store call failing) is answered with 404.
C2_UnresolvedReferenceGives404 ==
  (IsCreate /\ ~RefsResolve(request.body) /\ NoStoreFailure) =>
    response.status_code = 404

\* C3: a create_appointment call with an unresolved reference fails and
\* inserts no appointment and no reminder.
C3_FailedCheckLeavesStoreUnchanged ==
  [][(request'.op = "create_appointment" /\ ~RefsResolve(request'.body)) =>
       /\ response'.status_code # 200
       /\ appointments' = appointments
       /\ reminders' = reminders]_vars

\* A creation refused for its staff_id, with service and client resolving,
\* in a store that already holds an appointment.
C3_Witness ==
  /\ IsCreate
  /\ raised = HTTPException(404, "Staff not found")
  /\ appointments # {}
  /\ Cardinality(reminders) = Cardinality(appointments)

\* C4: update_appointment_status with a status outside the enumerated set
\* is answered with 400 without any store call, and no stored row changes.
C4_InvalidStatusRejected ==
  [][(request'.op = "update_appointment_status"
        /\ request'.status \notin EnumeratedStatuses) =>
       /\ response'.status_code = 400
       /\ calls' = 0
       /\ appointments' = appointments
       /\ reminders' = reminders]_vars

\* An invalid status sent for an appointment that exists.
C4_Witness ==
  /\ IsUpdate
  /\ request.status \notin EnumeratedStatuses
  /\ response.status_code = 400
  /\ \E a \in appointments : a.id = request.appointment_id

\* C5: update_appointment_status with an enumerated status and the id of a
\* stored appointment (the store call not failing) returns 200 whatever the
\* appointment's current status; the returned row and the stored row carry
\* the new status and are otherwise as before.
C5_AnyStatusToAnyStatus ==
  [][(/\ request'.op = "update_appointment_status"
      /\ request'.status \in EnumeratedStatuses
      /\ request'.appointment_id \in Ids(appointments)
      /\ raised'.type # "Exception") =>
       /\ response'.status_code = 200
       /\ Len(response'.body) = 1
       /\ \A a \in appointments :
            a.id = request'.appointment_id =>
              /\ response'.body[1] = [a EXCEPT !.status = request'.status]
              /\ response'.body[1] \in appointments'
              /\ \A b \in appointments' :
                   b.id = a.id => b.status = request'.status]_vars

\* An appointment created with a status outside the set has been moved to
\* "scheduled" by a successful update.
C5_Witness ==
  /\ IsUpdate
  /\ response.status_code = 200
  /\ request.status = "scheduled"
  /\ \E a \in appointments :
       /\ a.id = request.appointment_id
       /\ a.start_time = 840
       /\ a.status = "scheduled"

\* C6: update_appointment_status with an enumerated status and an id that
\* names no stored appointment (the store call not failing) is answered
\* with 404.
C6_MissingAppointmentGives404 ==
  (/\ IsUpdate
   /\ request.status \in EnumeratedStatuses
   /\ request.appointment_id \notin Ids(appointments)
   /\ NoStoreFailure) =>
    response.status_code = 404

\* The stored appointment was created from the same input as the body.
SameInput(a, body) ==
  LET x == AppointmentCreate(body)
  IN  /\ a.service_id = x.service_id
      /\ a.client_id = x.client_id
      /\ a.staff_id = x.staff_id
      /\ a.start_time = x.start_time
      /\ a.end_time = x.end_time

\* C7: a successful create_appointment call repeating the input of a stored
\* appointment adds one more appointment, with an identifier no stored
\* appointment has, and one more reminder, which references it.
C7_NoDeduplication ==
  [][(/\ request'.op = "create_appointment"
      /\ response'.status_code = 200
      /\ \E a \in appointments : SameInput(a, request'.body)) =>
       /\ Len(response'.body) = 1
       /\ response'.body[1].id \notin Ids(appointments)
       /\ response'.body[1] \in appointments'
       /\ appointments \subseteq appointments'
       /\ Cardinality(appointments') = Cardinality(appointments) + 1
       /\ reminders \subseteq reminders'
       /\ Cardinality(reminders') = Cardinality(reminders) + 1
       /\ Cardinality(RemindersOf(reminders', response'.body[1].id)) = 1]_vars

\* Two stored appointments that differ in their identifier only, each with
\* its own reminder, right after the second creation.
C7_Witness ==
  /\ IsCreate
  /\ response.status_code = 200
  /\ \E a, b \in appointments :
       /\ a.id # b.id
       /\ [a EXCEPT !.id = b.id] = b
       /\ Cardinality(RemindersOf(reminders, a.id)) = 1
       /\ Cardinality(RemindersOf(reminders, b.id)) = 1

\* Appointments stored without any reminder.
Orphans(appts, rems) == {a.id : a \in {x \in appts : RemindersOf(rems, x.id) = {}}}

\* C8: when the reminder insert of a create_appointment call fails, the
\* caller gets 500 and the appointment just inserted stays stored without
\* a reminder; an appointment stored without a reminder stays stored and
\* without a reminder in every later step.
C8_NotAtomic ==
  [][/\ (request'.op = "create_appointment"
          /\ raised' = StoreError("appointment_reminders")) =>
          /\ response'.status_code = 500
          /\ \E a \in appointments' :
               /\ a.id \notin Ids(appointments)
               /\ a.id \in Orphans(appointments', reminders')
     /\ Orphans(appointments, reminders)
          \subseteq Orphans(appointments', reminders')]_vars

\* An appointment left without a reminder, after a later successful update
\* of that same appointment.
C8_Witness ==
  /\ IsUpdate
  /\ response.status_code = 200
  /\ request.appointment_id \in Orphans(appointments, reminders)

\* C9: create_appointment stores the status of the body as given
\* ("scheduled" when absent) without checking it, and every status written
\* by a successful update_appointment_status is in the enumerated set.
C9_StatusCheckedOnUpdateOnly ==
  [][/\ (request'.op = "create_appointment"
          /\ response'.status_code = 200) =>
          /\ Len(response'.body) = 1
          /\ response'.body[1] \in appointments'
          /\ response'.body[1].status =
               IF "status" \in DOMAIN request'.body
                 THEN request'.body.status ELSE "scheduled"
     /\ (request'.op = "update_appointment_status"
          /\ response'.status_code = 200) =>
          /\ request'.status \in EnumeratedStatuses
          /\ \A a \in appointments' :
               a.id = request'.appointment_id =>
                 a.status \in EnumeratedStatuses]_vars

\* A stored appointment carries a status outside the set while the last
\* request was a successful status update of another appointment.
C9_Witness ==
  /\ IsUpdate
  /\ response.status_code = 200
  /\ \E a \in appointments : a.status \notin EnumeratedStatuses

\* Every reminder references a stored appointment, and no appointment has
\* more than one reminder.
ReminderInv ==
  /\ \A r \in reminders : r.appointment_id \in Ids(appointments)
  /\ \A a \in appointments :
       Cardinality(RemindersOf(reminders, a.id)) <= 1

\* C10: over all sequences of create_appointment and
\* update_appointment_status requests, failing ones included, every
\* reminder references a stored appointment and no appointment has more
\* than one reminder; update_appointment_status leaves the reminders and
\* the number of appointments as they are.
C10_ReminderIntegrity ==
  /\ []ReminderInv
  /\ [][request'.op = "update_appointment_status" =>
          /\ reminders' = reminders
          /\ Cardinality(appointments') = Cardinality(appointments)]_vars

\* Both an appointment with its reminder and one without are stored, and
\* the last request was a status update that failed.
C10_Witness ==
  /\ IsUpdate
  /\ response.status_code = 500
  /\ reminders # {}
  /\ Orphans(appointments, reminders) # {}

====
